---- MODULE Spec2Model ----
(***************************************************************************)
(* Transaction ledger of FinanceFlow (app/routers/transactions.py over the *)
(* tables of app/models.py).  The store is the committed content of the    *)
(* SQLite database named in app/config.py; each request handler runs to    *)
(* its single db.commit() (or to the exception that abandons the session)  *)
(* and is one action.  SpecRace splits Create and Delete into their        *)
(* queries and their commit, for requests served by two processes; the     *)
(* list and analytics handlers are served from stores that Creates built.  *)
(***************************************************************************)
EXTENDS Integers, FiniteSets, Sequences, TLC

(***************************************************************************)
(* Bounds of the model.                                                    *)
(***************************************************************************)
\* largest transaction id the model lets the store hand out
MaxTx == 1
\* significand width of the modelled binary floating point numbers; the
\* Float columns and pydantic floats of the program are IEEE doubles, the
\* same format with a 53 bit significand
MantBits == 2

(***************************************************************************)
(* Binary floating point: amount and balance are Column(Float) and         *)
(* `amount: float`.  Numbers are counted in units of the smallest amount   *)
(* in play, so every value is an integer; a result that needs more than    *)
(* MantBits significant bits is rounded to the nearest representable       *)
(* value, ties to the even significand, as Python's float + and - do.      *)
(***************************************************************************)
RECURSIVE Pow2(_)
Pow2(n) == IF n = 0 THEN 1 ELSE 2 * Pow2(n - 1)

Abs(x) == IF x < 0 THEN 0 - x ELSE x

\* spacing of the representable numbers around magnitude m
RECURSIVE Quantum(_)
Quantum(m) == IF m < Pow2(MantBits) THEN 1 ELSE 2 * Quantum(m \div 2)

RoundFloat(x) ==
    LET m == Abs(x)
        q == Quantum(m)
        k == m \div q
        r == m - k * q
        up == \/ 2 * r > q
              \/ 2 * r = q /\ k % 2 = 1
        n == IF up THEN (k + 1) * q ELSE k * q
    IN  IF x < 0 THEN 0 - n ELSE n

FAdd(a, b) == RoundFloat(a + b)

FSub(a, b) == RoundFloat(a - b)

(***************************************************************************)
(* Rows of the users and accounts tables.  The routers that would create   *)
(* them are not part of the ledger; the rows are fixed.                    *)
(***************************************************************************)
Users == {1, 2}

\* accounts.user_id: accounts 1 and 2 belong to user 1, account 3 to user 2
AccountOwner == (1 :> 1) @@ (2 :> 1) @@ (3 :> 2)

Accounts == DOMAIN AccountOwner

\* accounts.balance when the ledger starts (B0)
OpeningBalance == (1 :> 1) @@ (2 :> 0) @@ (3 :> 0)

\* an account id that resolves to no row
NoAccount == Cardinality(Accounts) + 1

TransactionType == {"income", "expense", "transfer"}

TxIds == 1 .. (MaxTx + 1)

\* An Optional value is a set with at most one element: {} is None, {v} is v.
Val(s) == CHOOSE v \in s : TRUE

VARIABLES
    transactions,   \* transactions table: id -> row
    balance,        \* accounts table: account id -> balance
    deleted,        \* ids whose row a DELETE has removed (history)
    last,           \* the last request and its response
    sessions,       \* per server process: the request it is serving
    reply,          \* body of the last list / analytics / auth response
    users,          \* users table of the API: the registered users
    categories,     \* categories table: id -> row
    session_state,  \* dashboard.py: st.session_state (token, user_info)
    screen,         \* dashboard.py: what the last script run rendered
    simple_finance, \* simple_finance.db: its users and transactions tables
    simple_session_state  \* simple_dashboard.py: st.session_state

\* the state outside the transaction ledger
other_vars == <<users, categories, session_state, screen, simple_finance,
                simple_session_state>>

vars == <<transactions, balance, deleted, last, sessions, reply, users,
          categories, session_state, screen, simple_finance,
          simple_session_state>>

\* the users and categories tables as create_all leaves them: empty
InitApi ==
    /\ users = <<>>
    /\ categories = <<>>

\* dashboard.py: a new browser session has neither token nor user_info,
\* and nothing has been rendered yet
InitDashboard ==
    /\ session_state = [token |-> {}, user_info |-> {}]
    /\ screen = [page |-> "none", message |-> "none", rerun |-> FALSE]

\* simple_dashboard.py: init_db() creates the two tables empty; a new
\* browser session has no user and no confirm_clear key
InitSimple ==
    /\ simple_finance = [users |-> <<>>, transactions |-> <<>>]
    /\ simple_session_state =
         [user_id |-> {}, username |-> {}, confirm_clear |-> {}]

\* schemas.TransactionCreate: every field of TransactionBase
TransactionCreate(amounts, descriptions, types, accounts) ==
    [amount : amounts, description : descriptions, transaction_date : {1},
     transaction_type : types, account_id : accounts, category_id : {{}}]

\* models.Transaction row (created_at left out: no handler reads it)
Row(t, user) ==
    [amount |-> t.amount, description |-> t.description,
     transaction_date |-> t.transaction_date,
     transaction_type |-> t.transaction_type, user_id |-> user,
     account_id |-> t.account_id, category_id |-> t.category_id]

\* id = Column(Integer, primary_key=True) on SQLite is a rowid alias without
\* AUTOINCREMENT: a new row gets the largest id in use plus one
RECURSIVE MaxOf(_)
MaxOf(S) == IF S = {} THEN 0
            ELSE LET x == CHOOSE y \in S : TRUE
                     m == MaxOf(S \ {x})
                 IN  IF x > m THEN x ELSE m

NextId(txs) == MaxOf(DOMAIN txs) + 1

\* the lookup without the user_id filter
OwnedAccountAnyUser(account_id, user) ==
    IF account_id \in Accounts THEN {account_id} ELSE {}

\* db.query(models.Account).filter(id == account_id, user_id == user).first()
OwnedAccount(account_id, user) ==
    IF account_id \in Accounts /\ AccountOwner[account_id] = user
    THEN {account_id} ELSE {}

\* db.query(models.Account).filter(id == account_id).first()
AnyAccount(account_id) ==
    IF account_id \in Accounts THEN {account_id} ELSE {}

\* the lookup without the user_id filter
OwnedTransactionAnyUser(txs, transaction_id, user) ==
    IF transaction_id \in DOMAIN txs THEN {transaction_id} ELSE {}

\* db.query(models.Transaction).filter(id == transaction_id,
\*                                     user_id == current_user.id).first()
OwnedTransaction(txs, transaction_id, user) ==
    IF transaction_id \in DOMAIN txs /\ txs[transaction_id].user_id = user
    THEN {transaction_id} ELSE {}

\* `else` in place of `elif ... expense`: a transfer is taken as an expense
ApplyEffectElse(b, type, amount) ==
    IF type = "income" THEN FAdd(b, amount) ELSE FSub(b, amount)

\* the if/elif on transaction_type that adds the amount to the balance
ApplyEffect(b, type, amount) ==
    IF type = "income" THEN FAdd(b, amount)
    ELSE IF type = "expense" THEN FSub(b, amount)
    ELSE b

\* the if/elif on transaction_type that takes the amount back out
RevertEffect(b, type, amount) ==
    IF type = "income" THEN FSub(b, amount)
    ELSE IF type = "expense" THEN FAdd(b, amount)
    ELSE b

\* the request served last: operation, caller, transaction id, HTTP status,
\* and for a PUT whether it carried one of amount / type / account_id
Response(op, user, id, status) ==
    [op |-> op, user |-> user, id |-> id, status |-> status,
     touches |-> FALSE]

Unchanged(txs, bal, status) ==
    [transactions |-> txs, balance |-> bal, status |-> status]

(***************************************************************************)
(* POST /transactions/                                                      *)
(***************************************************************************)
\* db.commit() placed before the balance update: the row is written, the
\* balance is not
CreateResultNoBalance(txs, bal, user, t) ==
    IF OwnedAccount(t.account_id, user) = {}
    THEN Unchanged(txs, bal, 404)
    ELSE [transactions |-> txs @@ (NextId(txs) :> Row(t, user)),
          balance |-> bal, status |-> 200]

CreateResult(txs, bal, user, t) ==
    LET account == OwnedAccount(t.account_id, user)
        id == NextId(txs)
    IN  IF account = {}
        THEN Unchanged(txs, bal, 404)
        ELSE [transactions |-> txs @@ (id :> Row(t, user)),
              balance |-> [bal EXCEPT ![Val(account)] =
                              ApplyEffect(@, t.transaction_type, t.amount)],
              status |-> 200]

create_transaction(callers, requests) ==
    \E user \in callers, t \in requests :
        LET r == CreateResult(transactions, balance, user, t)
            id == NextId(transactions)
        IN  /\ id <= MaxTx
            /\ transactions' = r.transactions
            /\ balance' = r.balance
            /\ last' = Response("create", user, id, r.status)
            /\ UNCHANGED <<deleted, sessions, reply>>
            /\ UNCHANGED other_vars

(***************************************************************************)
(* GET /transactions/{transaction_id}                                       *)
(***************************************************************************)
ReadResult(txs, bal, user, transaction_id) ==
    IF OwnedTransaction(txs, transaction_id, user) = {}
    THEN Unchanged(txs, bal, 404)
    ELSE Unchanged(txs, bal, 200)

get_transaction(callers) ==
    \E user \in callers, transaction_id \in TxIds :
        LET r == ReadResult(transactions, balance, user, transaction_id)
        IN  /\ last' = Response("read", user, transaction_id, r.status)
            /\ UNCHANGED <<transactions, balance, deleted, sessions, reply>>
            /\ UNCHANGED other_vars

(***************************************************************************)
(* PUT /transactions/{transaction_id}                                       *)
(* schemas.TransactionUpdate: each field is left out of the request        *)
(* (set = FALSE), sent as null (v = {}) or sent with a value (v = {x}).    *)
(***************************************************************************)
Unset == [set |-> FALSE, v |-> {}]

Sent(v) == [set |-> TRUE, v |-> v]

Field(S) == {Unset} \cup {Sent(v) : v \in S}

Opt(S) == {{x} : x \in S}

\* The requests a specification sends: those that carry only fields of the
\* balance (amount, transaction_type, account_id) and those that carry only
\* other fields.
TransactionUpdate(amounts, descriptions, types, accounts) ==
    [amount : Field(amounts), description : {Unset},
     transaction_date : {Unset}, transaction_type : Field(types),
     account_id : Field(accounts), category_id : {Unset}]
    \cup
    [amount : {Unset}, description : Field(descriptions),
     transaction_date : Field({{1}}), transaction_type : {Unset},
     account_id : {Unset}, category_id : Field({{}})]

\* columns declared nullable=False in models.Transaction
NotNull == {"amount", "transaction_date", "transaction_type", "account_id"}

\* the row as the session holds it, every column an Optional
Loaded(row) ==
    [amount |-> {row.amount}, description |-> row.description,
     transaction_date |-> {row.transaction_date},
     transaction_type |-> {row.transaction_type},
     account_id |-> {row.account_id}, category_id |-> row.category_id]

\* for field, value in transaction_update.dict(exclude_unset=True).items():
\*     setattr(transaction, field, value)
SetAttrs(obj, upd) ==
    [f \in DOMAIN obj |-> IF upd[f].set THEN upd[f].v ELSE obj[f]]

\* transaction_update.<field> is not None
IsNotNone(f) == f.set /\ f.v # {}

TouchesBalance(upd) ==
    \/ IsNotNone(upd.amount)
    \/ IsNotNone(upd.transaction_type)
    \/ IsNotNone(upd.account_id)

HasEffect(type) == type = {"income"} \/ type = {"expense"}

\* the row written by the commit
Stored(obj, user) ==
    [amount |-> Val(obj.amount), description |-> obj.description,
     transaction_date |-> Val(obj.transaction_date),
     transaction_type |-> Val(obj.transaction_type), user_id |-> user,
     account_id |-> Val(obj.account_id), category_id |-> obj.category_id]

\* "Revert old transaction effect": the account row of the old account_id,
\* whatever its owner, takes the old amount back
RevertOld(bal, old) ==
    LET old_account == AnyAccount(old.account_id)
    IN  IF old_account = {} THEN bal
        ELSE [bal EXCEPT ![Val(old_account)] =
                 RevertEffect(@, old.transaction_type, old.amount)]

\* "Apply new transaction effect": the account row of the transaction's
\* account_id after setattr, whatever its owner, gets the new amount
ApplyNew(bal, obj) ==
    LET new_account == IF obj.account_id = {} THEN {}
                       ELSE AnyAccount(Val(obj.account_id))
    IN  IF new_account = {} \/ ~HasEffect(obj.transaction_type)
           \/ obj.amount = {}
        THEN bal
        ELSE [bal EXCEPT ![Val(new_account)] =
                 ApplyEffect(@, Val(obj.transaction_type), Val(obj.amount))]

\* the apply block dedented out of the `if`
HandleBalanceDedented(bal, old, obj, upd) ==
    ApplyNew(IF TouchesBalance(upd) THEN RevertOld(bal, old) ELSE bal, obj)

\* "Handle account balance changes": the block under the `if`
HandleBalance(bal, old, obj, upd) ==
    IF TouchesBalance(upd) THEN ApplyNew(RevertOld(bal, old), obj) ELSE bal

\* the exceptions of that block: <account>.balance on None raises
\* AttributeError, balance += None raises TypeError
HandleBalanceRaises(old, obj, upd) ==
    /\ TouchesBalance(upd)
    /\ \/ /\ HasEffect({old.transaction_type})
          /\ AnyAccount(old.account_id) = {}
       \/ /\ HasEffect(obj.transaction_type)
          /\ \/ obj.account_id = {}
             \/ AnyAccount(Val(obj.account_id)) = {}
             \/ obj.amount = {}

\* db.commit() raises IntegrityError when a NOT NULL column holds None;
\* SQLite does not enforce the foreign keys
CommitRaises(obj) == \E f \in NotNull : obj[f] = {}

\* a db.commit() after the revert block: a failure of the apply block
\* leaves the reverted balance committed
UpdateResultCommitsRevert(txs, bal, user, transaction_id, upd) ==
    IF OwnedTransaction(txs, transaction_id, user) = {}
    THEN Unchanged(txs, bal, 404)
    ELSE
      LET old == txs[transaction_id]
          obj == SetAttrs(Loaded(old), upd)
      IN  IF HandleBalanceRaises(old, obj, upd) \/ CommitRaises(obj)
          THEN Unchanged(txs, IF TouchesBalance(upd)
                              THEN RevertOld(bal, old) ELSE bal, 500)
          ELSE [transactions |->
                    [txs EXCEPT ![transaction_id] = Stored(obj, user)],
                balance |-> HandleBalance(bal, old, obj, upd),
                status |-> 200]

UpdateResult(txs, bal, user, transaction_id, upd) ==
    IF OwnedTransaction(txs, transaction_id, user) = {}
    THEN Unchanged(txs, bal, 404)
    ELSE
      LET old == txs[transaction_id]
          obj == SetAttrs(Loaded(old), upd)
      IN  IF HandleBalanceRaises(old, obj, upd) \/ CommitRaises(obj)
          THEN Unchanged(txs, bal, 500)
          ELSE [transactions |->
                    [txs EXCEPT ![transaction_id] = Stored(obj, user)],
                balance |-> HandleBalance(bal, old, obj, upd),
                status |-> 200]

update_transaction(callers, requests) ==
    \E user \in callers, transaction_id \in TxIds, upd \in requests :
        LET r == UpdateResult(transactions, balance, user, transaction_id, upd)
        IN  /\ transactions' = r.transactions
            /\ balance' = r.balance
            /\ last' = [Response("update", user, transaction_id, r.status)
                        EXCEPT !.touches = TouchesBalance(upd)]
            /\ UNCHANGED <<deleted, sessions, reply>>
            /\ UNCHANGED other_vars

(***************************************************************************)
(* DELETE /transactions/{transaction_id}                                    *)
(***************************************************************************)
\* db.delete(transaction) left out: the balance is reverted, the row stays
DeleteResultKeepsRow(txs, bal, user, transaction_id) ==
    IF OwnedTransaction(txs, transaction_id, user) = {}
    THEN Unchanged(txs, bal, 404)
    ELSE
      LET row == txs[transaction_id]
          account == AnyAccount(row.account_id)
      IN  IF HasEffect({row.transaction_type}) /\ account = {}
          THEN Unchanged(txs, bal, 500)
          ELSE [transactions |-> txs,
                balance |-> IF account = {} THEN bal
                            ELSE [bal EXCEPT ![Val(account)] =
                                     RevertEffect(@, row.transaction_type,
                                                  row.amount)],
                status |-> 200]

DeleteResult(txs, bal, user, transaction_id) ==
    IF OwnedTransaction(txs, transaction_id, user) = {}
    THEN Unchanged(txs, bal, 404)
    ELSE
      LET row == txs[transaction_id]
          account == AnyAccount(row.account_id)
      IN  IF HasEffect({row.transaction_type}) /\ account = {}
          THEN Unchanged(txs, bal, 500)
          ELSE [transactions |->
                    [i \in DOMAIN txs \ {transaction_id} |-> txs[i]],
                balance |-> IF account = {} THEN bal
                            ELSE [bal EXCEPT ![Val(account)] =
                                     RevertEffect(@, row.transaction_type,
                                                  row.amount)],
                status |-> 200]

delete_transaction(callers) ==
    \E user \in callers, transaction_id \in TxIds :
        LET r == DeleteResult(transactions, balance, user, transaction_id)
        IN  /\ transactions' = r.transactions
            /\ balance' = r.balance
            /\ last' = Response("delete", user, transaction_id, r.status)
            /\ deleted' = IF r.status = 200
                          THEN deleted \cup {transaction_id} ELSE deleted
            /\ UNCHANGED <<sessions, reply>>
            /\ UNCHANGED other_vars

(***************************************************************************)
(* Overlapping requests.  A handler body has no await, so one server       *)
(* process serves one request at a time; requests overlap when several     *)
(* processes serve the same database file.  pysqlite opens the database    *)
(* transaction at the first INSERT / UPDATE / DELETE, which the session    *)
(* sends when db.commit() flushes: the SELECTs of a handler run before it  *)
(* and hold no lock.  A request is then two steps, its queries and its     *)
(* commit.  Create and Delete send every query before they change an       *)
(* object; they are the requests modelled here.                            *)
(***************************************************************************)
Workers == {1, 2}

\* a process between two requests
Idle ==
    [pc |-> "idle", op |-> "none", user |-> 0, id |-> 0, row |-> {},
     account |-> {}, read |-> 0, value |-> 0]

\* UPDATE accounts SET balance = balance + ?: the change is sent, not the
\* value computed from the balance the session read
FlushBalanceRelative(bal, s) ==
    IF s.account = {} \/ s.value = s.read THEN bal
    ELSE [bal EXCEPT ![Val(s.account)] = FAdd(@, s.value - s.read)]

\* the flush of db.commit(): an account whose balance attribute changed is
\* written with UPDATE accounts SET balance = <the session's value>
FlushBalance(bal, s) ==
    IF s.account = {} \/ s.value = s.read THEN bal
    ELSE [bal EXCEPT ![Val(s.account)] = s.value]

\* create_transaction up to db.commit(): the account is queried and its
\* balance attribute is set in the session
create_transaction_begin(callers, requests) ==
    \E w \in Workers, user \in callers, t \in requests :
        LET account == OwnedAccount(t.account_id, user)
        IN  /\ sessions[w].pc = "idle"
            /\ IF account = {}
               THEN /\ last' = Response("create", user, 0, 404)
                    /\ UNCHANGED sessions
               ELSE /\ sessions' = [sessions EXCEPT ![w] =
                        [pc |-> "commit", op |-> "create", user |-> user,
                         id |-> 0, row |-> {Row(t, user)},
                         account |-> account,
                         read |-> balance[Val(account)],
                         value |-> ApplyEffect(balance[Val(account)],
                                               t.transaction_type, t.amount)]]
                    /\ UNCHANGED last
            /\ UNCHANGED <<transactions, balance, deleted, reply>>
            /\ UNCHANGED other_vars

\* delete_transaction up to db.commit(): the row and its account are
\* queried, the balance attribute is set, the row is marked for deletion
delete_transaction_begin(callers) ==
    \E w \in Workers, user \in callers, transaction_id \in TxIds :
        LET r == DeleteResult(transactions, balance, user, transaction_id)
            account == AnyAccount(transactions[transaction_id].account_id)
        IN  /\ sessions[w].pc = "idle"
            /\ IF r.status # 200
               THEN /\ last' = Response("delete", user, transaction_id,
                                        r.status)
                    /\ UNCHANGED sessions
               ELSE /\ sessions' = [sessions EXCEPT ![w] =
                        [pc |-> "commit", op |-> "delete", user |-> user,
                         id |-> transaction_id,
                         row |-> {transactions[transaction_id]},
                         account |-> account,
                         read |-> IF account = {} THEN 0
                                  ELSE balance[Val(account)],
                         value |-> IF account = {} THEN 0
                                   ELSE r.balance[Val(account)]]]
                    /\ UNCHANGED last
            /\ UNCHANGED <<transactions, balance, deleted, reply>>
            /\ UNCHANGED other_vars

\* most rows the overlapping requests may store; the runs explored end
\* before an id is handed out a second time
MaxRace == MaxTx + 1

\* db.commit(): the pending INSERT or DELETE and the balance UPDATE are sent
\* and committed together.  A DELETE that matches no row any more is only
\* warned about (confirm_deleted_rows).
session_commit ==
    \E w \in Workers :
        LET s == sessions[w]
            id == IF s.op = "create" THEN NextId(transactions) ELSE s.id
        IN  /\ s.pc = "commit"
            /\ s.op = "create" => id <= MaxRace /\ id \notin deleted
            /\ transactions' =
                 IF s.op = "create"
                 THEN transactions @@ (id :> Val(s.row))
                 ELSE [i \in DOMAIN transactions \ {id} |-> transactions[i]]
            /\ balance' = FlushBalance(balance, s)
            /\ deleted' = IF s.op = "delete" THEN deleted \cup {id}
                          ELSE deleted
            /\ last' = Response(s.op, s.user, id, 200)
            /\ sessions' = [sessions EXCEPT ![w] = Idle]
            /\ UNCHANGED reply
            /\ UNCHANGED other_vars

(***************************************************************************)
(* Stores for the read-only requests.  A store is what a sequence of       *)
(* Creates leaves behind; the rows carry dates (whole days) and            *)
(* categories.                                                             *)
(***************************************************************************)
\* schemas.TransactionCreate with every date and category
TransactionCreateOn(amounts, dates, types, accounts, category_ids) ==
    [amount : amounts, description : {{"rent"}}, transaction_date : dates,
     transaction_type : types, account_id : accounts,
     category_id : category_ids]

\* the store after the Creates reqs[1], reqs[2], ... on the opening store
RECURSIVE StoreAfter(_)
StoreAfter(reqs) ==
    IF reqs = <<>> THEN Unchanged(<<>>, OpeningBalance, 200)
    ELSE LET before == StoreAfter(SubSeq(reqs, 1, Len(reqs) - 1))
             q == reqs[Len(reqs)]
         IN  CreateResult(before.transactions, before.balance, q.user, q.t)

\* the Creates of the callers on their accounts
Creates(callers, requests) ==
    {q \in [user : callers, t : requests] :
        OwnedAccount(q.t.account_id, q.user) # {}}

\* most rows of a store the read-only requests are served from
MaxRows == 2

\* no list or analytics request served yet; the runs explored serve one
\* such request from each store
NoReply == [op |-> "none"]

InitStore(creates) ==
    /\ \E n \in 0 .. MaxRows :
         \E reqs \in [1 .. n -> creates] :
            /\ transactions = StoreAfter(reqs).transactions
            /\ balance = StoreAfter(reqs).balance
    /\ deleted = {}
    /\ last = Response("none", 0, 0, 0)
    /\ sessions = [w \in Workers |-> Idle]
    /\ reply = NoReply
    /\ InitApi
    /\ InitDashboard
    /\ InitSimple

(***************************************************************************)
(* GET /transactions/                                                       *)
(***************************************************************************)
\* the query parameters; skip and limit pass Query(ge=0) and
\* Query(ge=1, le=1000)
ListQuery(skips, limits, accounts, category_ids, types, starts, ends) ==
    [skip : skips, limit : limits, account_id : accounts,
     category_id : category_ids, transaction_type : types,
     start_date : starts, end_date : ends]

\* `if account_id:` on an Optional[int]: None and 0 are both false
Truthy(o) == o # {} /\ Val(o) # 0

\* `if transaction_type:` / `if start_date:` on an enum member or a date,
\* which are true whenever they are not None
Given(o) == o # {}

\* the filters of the query, each applied when its parameter is true
Matching(txs, user, q) ==
    {i \in DOMAIN txs :
        /\ txs[i].user_id = user
        /\ Truthy(q.account_id) => txs[i].account_id = Val(q.account_id)
        /\ Truthy(q.category_id) => txs[i].category_id = q.category_id
        /\ Given(q.transaction_type)
             => txs[i].transaction_type = Val(q.transaction_type)
        /\ Given(q.start_date)
             => txs[i].transaction_date >= Val(q.start_date)
        /\ Given(q.end_date)
             => txs[i].transaction_date <= Val(q.end_date)}

\* order_by(transaction_date.desc()): the orders of the rows S in which no
\* row comes before a row of a later date; SQL leaves the order of rows of
\* one date open
DateDescending(txs, S) ==
    {o \in [1 .. Cardinality(S) -> S] :
        /\ \A i, j \in DOMAIN o : i # j => o[i] # o[j]
        /\ \A i, j \in DOMAIN o :
             i < j => txs[o[i]].transaction_date >= txs[o[j]].transaction_date}

\* offset(skip).limit(limit)
Page(o, skip, limit) ==
    [k \in 1 .. (IF Len(o) - skip < limit
                 THEN (IF Len(o) > skip THEN Len(o) - skip ELSE 0)
                 ELSE limit) |-> o[skip + k]]

get_transactions(callers, queries) ==
    /\ reply = NoReply
    /\ \E user \in callers, q \in queries :
         \E o \in DateDescending(transactions,
                                 Matching(transactions, user, q)) :
            reply' = [op |-> "list", user |-> user, query |-> q,
                      items |-> Page(o, q.skip, q.limit)]
    /\ UNCHANGED <<transactions, balance, deleted, last, sessions>>
    /\ UNCHANGED other_vars

(***************************************************************************)
(* Sums of amounts.  sum(t.amount for t in transactions ...) adds the      *)
(* floats one by one, starting from 0, in the order the query returned the *)
(* rows: the order of their ids, as no order_by is given.                  *)
(***************************************************************************)
\* the ids S in increasing order
RECURSIVE Ascending(_)
Ascending(S) ==
    IF S = {} THEN <<>>
    ELSE Append(Ascending(S \ {MaxOf(S)}), MaxOf(S))

RECURSIVE FSum(_, _)
FSum(txs, ids) ==
    IF ids = <<>> THEN 0
    ELSE FAdd(FSum(txs, SubSeq(ids, 1, Len(ids) - 1)),
              txs[ids[Len(ids)]].amount)

SumAmounts(txs, S) == FSum(txs, Ascending(S))

\* ... for t in transactions if t.transaction_type == type
OfType(txs, S, type) == {i \in S : txs[i].transaction_type = type}

(***************************************************************************)
(* GET /transactions/analytics/summary                                      *)
(***************************************************************************)
SummaryQuery(starts, ends) == [start_date : starts, end_date : ends]

SummaryRows(txs, user, q) ==
    {i \in DOMAIN txs :
        /\ txs[i].user_id = user
        /\ Given(q.start_date)
             => txs[i].transaction_date >= Val(q.start_date)
        /\ Given(q.end_date)
             => txs[i].transaction_date <= Val(q.end_date)}

\* schemas.TransactionSummary
SummaryResult(txs, user, q) ==
    LET rows == SummaryRows(txs, user, q)
        total_income == SumAmounts(txs, OfType(txs, rows, "income"))
        total_expenses == SumAmounts(txs, OfType(txs, rows, "expense"))
    IN  [total_income |-> total_income,
         total_expenses |-> total_expenses,
         net_income |-> FSub(total_income, total_expenses),
         transaction_count |-> Cardinality(rows)]

get_transaction_summary(callers, queries) ==
    /\ reply = NoReply
    /\ \E user \in callers, q \in queries :
         reply' = [op |-> "summary", user |-> user, query |-> q,
                   body |-> SummaryResult(transactions, user, q)]
    /\ UNCHANGED <<transactions, balance, deleted, last, sessions>>
    /\ UNCHANGED other_vars

(***************************************************************************)
(* GET /transactions/analytics/wealth-insights                              *)
(* Quotients are kept as fractions num / den of the floats they divide; a  *)
(* quotient with den = 0 is a ZeroDivisionError.  For the amounts explored *)
(* the value has the same clamped integer part as its double evaluation.   *)
(***************************************************************************)
Rat(n, d) == IF d < 0 THEN [num |-> 0 - n, den |-> 0 - d]
             ELSE [num |-> n, den |-> d]

RatAdd(a, b) == Rat(a.num * b.den + b.num * a.den, a.den * b.den)

RatTimes(a, k) == Rat(a.num * k, a.den)

RatOver(a, k) == Rat(a.num, a.den * k)

\* int(x): the fraction is cut off, towards zero
Trunc(r) ==
    IF r.num >= 0 THEN r.num \div r.den ELSE 0 - ((0 - r.num) \div r.den)

\* round(x): the nearest integer, a tie goes to the even one
RoundHalfEven(r) ==
    LET f == r.num \div r.den
        rest == r.num - f * r.den
    IN  IF 2 * rest > r.den \/ (2 * rest = r.den /\ f % 2 = 1)
        THEN f + 1 ELSE f

Min2(a, b) == IF a < b THEN a ELSE b

Max2(a, b) == IF a > b THEN a ELSE b

\* the first categories seeded at startup, by id
CategoryName == (1 :> "Food & Dining") @@ (2 :> "Transportation")

\* category.name if category else "Uncategorized"
CategoryOf(category_id) ==
    IF category_id # {} /\ Val(category_id) \in DOMAIN CategoryName
    THEN CategoryName[Val(category_id)] ELSE "Uncategorized"

\* filter(user_id == current_user.id, transaction_date >= cutoff_date)
InsightRows(txs, user, cutoff) ==
    {i \in DOMAIN txs :
        txs[i].user_id = user /\ txs[i].transaction_date >= cutoff}

\* the loop that builds expense_by_category
ExpenseByCategory(txs, rows) ==
    LET expenses == OfType(txs, rows, "expense")
        names == {CategoryOf(txs[i].category_id) : i \in expenses}
    IN  [name \in names |->
            SumAmounts(txs, {i \in expenses :
                               CategoryOf(txs[i].category_id) = name})]

\* the quotient without its guard
SavingsRateUnguarded(total_income, total_expenses) ==
    Rat(FSub(total_income, total_expenses), total_income)

SavingsRate(total_income, total_expenses) ==
    IF total_income > 0
    THEN Rat(FSub(total_income, total_expenses), total_income)
    ELSE Rat(0, 1)

DiversificationScore(expense_by_category) ==
    Min2(Cardinality(DOMAIN expense_by_category) * 10, 100)

\* 100 - (len(set(amounts)) / len(transactions) * 100) if transactions else 0
ConsistencyScore(txs, rows) ==
    IF rows = {} THEN Rat(0, 1)
    ELSE LET n == Cardinality(rows)
             d == Cardinality({txs[i].amount : i \in rows})
         IN  Rat(100 * n - 100 * d, n)

\* int(savings_rate * 40 + diversification_score * 0.3
\*     + consistency_score * 0.3)
WealthScore(savings_rate, diversification_score, consistency_score) ==
    Trunc(RatAdd(RatAdd(RatTimes(savings_rate, 40),
                        Rat(3 * diversification_score, 10)),
                 RatOver(RatTimes(consistency_score, 3), 10)))

\* min(100, wealth_score), without the max(0, ...)
FinancialHealthScoreNoFloor(wealth_score) == Min2(100, wealth_score)

\* max(0, min(100, wealth_score))
FinancialHealthScore(wealth_score) == Max2(0, Min2(100, wealth_score))

\* max(expense_by_category, key=expense_by_category.get): the first key,
\* in the order the loop inserted them, that holds the largest amount
TopExpenseCategory(txs, rows, expense_by_category) ==
    LET names == DOMAIN expense_by_category
        First(name) ==
            CHOOSE i \in rows :
                /\ txs[i].transaction_type = "expense"
                /\ CategoryOf(txs[i].category_id) = name
                /\ \A j \in rows :
                     (/\ txs[j].transaction_type = "expense"
                      /\ CategoryOf(txs[j].category_id) = name) => i <= j
        Largest(name) ==
            \A other \in names :
                expense_by_category[other] <= expense_by_category[name]
    IN  IF names = {} THEN {}
        ELSE {CHOOSE name \in names :
                /\ Largest(name)
                /\ \A other \in names :
                     Largest(other) => First(name) <= First(other)}

\* the statements after the early return
Metrics(txs, rows, period_days) ==
    LET total_income == SumAmounts(txs, OfType(txs, rows, "income"))
        total_expenses == SumAmounts(txs, OfType(txs, rows, "expense"))
        expense_by_category == ExpenseByCategory(txs, rows)
        savings_rate == SavingsRate(total_income, total_expenses)
        diversification_score == DiversificationScore(expense_by_category)
        consistency_score == ConsistencyScore(txs, rows)
        n == Cardinality(rows)
    IN  IF savings_rate.den = 0 \/ n = 0 \/ period_days = 0
        THEN [kind |-> "error"]
        ELSE
          [kind |-> "metrics",
           analysis_period |-> period_days,
           financial_health_score |->
               FinancialHealthScore(WealthScore(savings_rate,
                   diversification_score, consistency_score)),
           total_income |-> total_income,
           total_expenses |-> total_expenses,
           net_wealth_change |-> FSub(total_income, total_expenses),
           \* round(savings_rate * 100, 2), in hundredths
           savings_rate_percent |->
               RoundHalfEven(RatTimes(savings_rate, 10000)),
           spending_distribution |->
               [name \in DOMAIN expense_by_category |->
                   [amount |-> expense_by_category[name],
                    percentage |->
                        IF total_expenses > 0
                        THEN RoundHalfEven(
                                 Rat(expense_by_category[name] * 10000,
                                     total_expenses))
                        ELSE 0]],
           top_expense_category |->
               TopExpenseCategory(txs, rows, expense_by_category),
           average_transaction |-> Rat(SumAmounts(txs, rows), n),
           transaction_frequency |-> Rat(n, period_days),
           recommendation |->
               IF 5 * savings_rate.num > savings_rate.den
               THEN "Great savings rate!"
               ELSE "Consider reducing expenses to improve savings."]

\* the handler without `if not transactions: return {"message": ...}`
WealthInsightsNoReturn(txs, user, period_days, now) ==
    Metrics(txs, InsightRows(txs, user, now - period_days), period_days)

WealthInsightsResult(txs, user, period_days, now) ==
    LET rows == InsightRows(txs, user, now - period_days)
    IN  IF rows = {}
        THEN [kind |-> "message"]
        ELSE Metrics(txs, rows, period_days)

\* now is datetime.utcnow(), period_days passes Query(30, ge=7, le=365)
get_wealth_insights(callers, periods, nows) ==
    /\ reply = NoReply
    /\ \E user \in callers, period_days \in periods, now \in nows :
         reply' = [op |-> "insights", user |-> user,
                   period_days |-> period_days, now |-> now,
                   body |-> WealthInsightsResult(transactions, user,
                                                 period_days, now)]
    /\ UNCHANGED <<transactions, balance, deleted, last, sessions>>
    /\ UNCHANGED other_vars

(***************************************************************************)
(* GET /transactions/analytics/spending-patterns                            *)
(***************************************************************************)
\* timedelta(days=90)
PatternDays == 90

\* the query without the transaction_type filter
PatternRowsAllTypes(txs, user, cutoff) ==
    {i \in DOMAIN txs :
        txs[i].user_id = user /\ txs[i].transaction_date >= cutoff}

PatternRows(txs, user, cutoff) ==
    {i \in DOMAIN txs :
        /\ txs[i].user_id = user
        /\ txs[i].transaction_date >= cutoff
        /\ txs[i].transaction_type = "expense"}

\* calendar.day_name[t.transaction_date.weekday()]; day 0 is a Monday
Weekday(d) ==
    <<"Monday", "Tuesday", "Wednesday", "Thursday", "Friday", "Saturday",
      "Sunday">>[(d % 7) + 1]

\* t.transaction_date.strftime("%Y-%m"): the month of day d of a common
\* year, for the days up to the end of April
MonthKey(d) ==
    IF d < 31 THEN 1 ELSE IF d < 59 THEN 2 ELSE IF d < 90 THEN 3 ELSE 4

\* the statements after the early return
Patterns(txs, rows) ==
    LET n == Cardinality(rows)
        weekly_spending ==
            [day \in {Weekday(txs[i].transaction_date) : i \in rows} |->
                SumAmounts(txs, {i \in rows :
                                   Weekday(txs[i].transaction_date) = day})]
        monthly_spending ==
            [month \in {MonthKey(txs[i].transaction_date) : i \in rows} |->
                SumAmounts(txs, {i \in rows :
                                   MonthKey(txs[i].transaction_date) = month})]
        total == SumAmounts(txs, rows)
        \* t.amount > avg_transaction * 2, with avg_transaction = total / n
        high_spending_days ==
            Ascending({i \in rows : txs[i].amount * n > 2 * total})
    IN  IF n = 0 THEN [kind |-> "error"]
        ELSE
          [kind |-> "metrics",
           weekly_patterns |->
               [day \in DOMAIN weekly_spending |->
                   [total_spent |-> weekly_spending[day],
                    avg_per_week |-> Rat(weekly_spending[day], 13)]],
           monthly_trends |-> monthly_spending,
           high_spending_threshold |-> Rat(2 * total, n),
           anomalous_transactions |->
               SubSeq(high_spending_days, 1,
                      Min2(10, Len(high_spending_days))),
           total_anomalies |-> Len(high_spending_days),
           recommendation |->
               IF Len(high_spending_days) < 5
               THEN "Your spending patterns show good consistency"
               ELSE "High variability detected in spending"]

PatternsResult(txs, user, now) ==
    LET rows == PatternRows(txs, user, now - PatternDays)
    IN  IF rows = {}
        THEN [kind |-> "message"]
        ELSE Patterns(txs, rows)

\* a handler that deletes the rows it does not analyse and commits
analyze_spending_patterns_purging(callers, nows) ==
    /\ reply = NoReply
    /\ \E user \in callers, now \in nows :
         /\ reply' = [op |-> "patterns", user |-> user, now |-> now,
                      body |-> PatternsResult(transactions, user, now)]
         /\ transactions' =
              [i \in {j \in DOMAIN transactions :
                        transactions[j].user_id = user =>
                          j \in PatternRows(transactions, user,
                                            now - PatternDays)}
                 |-> transactions[i]]
    /\ UNCHANGED <<balance, deleted, last, sessions>>
    /\ UNCHANGED other_vars

analyze_spending_patterns(callers, nows) ==
    /\ reply = NoReply
    /\ \E user \in callers, now \in nows :
         reply' = [op |-> "patterns", user |-> user, now |-> now,
                   body |-> PatternsResult(transactions, user, now)]
    /\ UNCHANGED <<transactions, balance, deleted, last, sessions>>
    /\ UNCHANGED other_vars

Init ==
    /\ transactions = <<>>
    /\ balance = OpeningBalance
    /\ deleted = {}
    /\ last = Response("none", 0, 0, 0)
    /\ sessions = [w \in Workers |-> Idle]
    /\ reply = NoReply
    /\ InitApi
    /\ InitDashboard
    /\ InitSimple

(***************************************************************************)
(* Spec: the ledger of user 1 over its two accounts, with two amounts so   *)
(* that sums need rounding.                                                *)
(***************************************************************************)
LedgerUsers == {1}

LedgerAmounts == {0, 4}

LedgerAccounts == {1, 2, NoAccount}

LedgerCreate ==
    TransactionCreate(LedgerAmounts, {{"rent"}}, TransactionType,
                      LedgerAccounts)

LedgerUpdate ==
    TransactionUpdate({{}} \cup Opt(LedgerAmounts), {{"rent"}},
                      Opt(TransactionType), Opt(LedgerAccounts))

Next ==
    \/ create_transaction(LedgerUsers, LedgerCreate)
    \/ get_transaction(LedgerUsers)
    \/ update_transaction(LedgerUsers, LedgerUpdate)
    \/ delete_transaction(LedgerUsers)

Spec == Init /\ [][Next]_vars

(***************************************************************************)
(* SpecUsers: two users, each with an account, one amount.                 *)
(***************************************************************************)
SharedAccounts == {2, 3, NoAccount}

SharedDescriptions == {{}, {"rent"}}

SharedCreate ==
    TransactionCreate({4}, SharedDescriptions, {"income"}, SharedAccounts)

SharedUpdate ==
    TransactionUpdate({{4}}, SharedDescriptions, {{}, {"income"}},
                      {{}} \cup Opt(SharedAccounts))

NextUsers ==
    \/ create_transaction(Users, SharedCreate)
    \/ get_transaction(Users)
    \/ update_transaction(Users, SharedUpdate)
    \/ delete_transaction(Users)

SpecUsers == Init /\ [][NextUsers]_vars

(***************************************************************************)
(* SpecRace: two server processes serve user 1's Create and Delete         *)
(* requests on account 2.  With one amount and an opening balance of 0 no  *)
(* sum needs rounding.                                                     *)
(***************************************************************************)
RaceCreate ==
    TransactionCreate({4}, {{"rent"}}, {"income", "expense"}, {2, NoAccount})

NextRace ==
    \/ create_transaction_begin(LedgerUsers, RaceCreate)
    \/ delete_transaction_begin(LedgerUsers)
    \/ session_commit

SpecRace == Init /\ [][NextRace]_vars

(***************************************************************************)
(* SpecList: the list request over stores of both users.  Category 0 is    *)
(* an id a Create may store (no handler looks the category up).            *)
(***************************************************************************)
ListCreates ==
    Creates(Users, TransactionCreateOn({4}, {1, 2}, {"income", "expense"},
                                       {2, 3}, {{0}, {1}}))

ListQueries ==
    ListQuery({0, 1}, {1, 2}, {{}, {2}}, {{}, {0}, {1}},
              {{}, {"income"}}, {{}, {2}}, {{}, {1}})

InitList == InitStore(ListCreates)

NextList == get_transactions(Users, ListQueries)

SpecList == InitList /\ [][NextList]_vars

(***************************************************************************)
(* SpecAnalytics: the analytics requests over stores of user 1, dated      *)
(* inside and outside the analysis periods, with and without a category,   *)
(* next to an expense of user 2.  Days count from Monday 1 January.         *)
(***************************************************************************)
AnalyticsCreates ==
    Creates({1}, TransactionCreateOn({0, 1, 3, 4}, {5, 95}, TransactionType,
                                     {2}, {{}, {1}}))
    \cup Creates({2}, TransactionCreateOn({4}, {95}, {"expense"}, {3},
                                          {{1}}))

SummaryQueries == SummaryQuery({{}, {95}}, {{}, {5}})

InitAnalytics == InitStore(AnalyticsCreates)

\* the day the analytics requests are served
Nows == {100}

InsightPeriods == {7, 30}

NextAnalytics ==
    \/ get_transaction_summary(Users, SummaryQueries)
    \/ get_wealth_insights(Users, InsightPeriods, Nows)
    \/ analyze_spending_patterns(Users, Nows)

SpecAnalytics == InitAnalytics /\ [][NextAnalytics]_vars

(***************************************************************************)
(* Properties of the ledger.                                               *)
(***************************************************************************)
\* the signed effect of a row in exact arithmetic
SignedEffect(row) ==
    IF row.transaction_type = "income" THEN row.amount
    ELSE IF row.transaction_type = "expense" THEN 0 - row.amount
    ELSE 0

RECURSIVE SumEffects(_, _)
SumEffects(txs, ids) ==
    IF ids = {} THEN 0
    ELSE LET i == CHOOSE j \in ids : TRUE
         IN  SignedEffect(txs[i]) + SumEffects(txs, ids \ {i})

\* opening balance plus the signed effects of the rows stored for account a
Ledger(txs, a) ==
    OpeningBalance[a]
      + SumEffects(txs, {i \in DOMAIN txs : txs[i].account_id = a})

\* an id no row has
AbsentId == MaxTx + 1

\* C1: after any sequence of Create, Update and Delete the balance of every
\* account equals its opening balance plus the sum of the signed effects
\* (+amount income, -amount expense, 0 transfer) of the rows now stored for it.
BalanceConservation ==
    \A a \in Accounts : balance[a] = Ledger(transactions, a)

\* C2: an Update that moves a row from account A to a different account B
\* takes the old effect out of A and puts the new effect into B, and then A
\* and B each hold their opening balance plus the effects of their rows.
AccountChangeConserves ==
    \A id \in DOMAIN transactions, upd \in LedgerUpdate :
        LET old == transactions[id]
            r == UpdateResult(transactions, balance, old.user_id, id, upd)
            A == old.account_id
            B == r.transactions[id].account_id
        IN  (r.status = 200 /\ A # B /\ A \in Accounts /\ B \in Accounts)
            => /\ r.balance[A] = balance[A] - SignedEffect(old)
               /\ r.balance[B] = balance[B] + SignedEffect(r.transactions[id])
               /\ r.balance[A] = Ledger(r.transactions, A)
               /\ r.balance[B] = Ledger(r.transactions, B)

\* C3: an Update that supplies none of amount, transaction_type and
\* account_id leaves the balance of every account unchanged.
UpdateOfOtherFieldsKeepsBalances ==
    \A user \in Users, id \in TxIds, upd \in SharedUpdate :
        (~upd.amount.set /\ ~upd.transaction_type.set /\ ~upd.account_id.set)
        => UpdateResult(transactions, balance, user, id, upd).balance = balance

\* an Update of a description alone has been committed for a row that has an
\* effect on its account
UpdateOfOtherFieldsDone ==
    /\ last.op = "update" /\ last.status = 200 /\ ~last.touches
    /\ last.id \in DOMAIN transactions
    /\ transactions[last.id].transaction_type = "income"
    /\ transactions[last.id].description = {}

\* C4: Create followed by Delete of the created row gives back the balances
\* and the rows there were before the Create.
DeleteReversesCreate ==
    \A user \in LedgerUsers, t \in LedgerCreate :
        LET c == CreateResult(transactions, balance, user, t)
            d == DeleteResult(c.transactions, c.balance, user,
                              NextId(transactions))
        IN  c.status = 200
            => d.status = 200 /\ d.balance = balance
                 /\ d.transactions = transactions

\* C5: Read, Update and Delete of a row owned by another user answer as for
\* an id that no row has (404) and change no row and no balance.
OwnershipIsolation ==
    \A user \in Users, id \in DOMAIN transactions :
        transactions[id].user_id # user
        => /\ ReadResult(transactions, balance, user, id)
                = Unchanged(transactions, balance, 404)
           /\ ReadResult(transactions, balance, user, id)
                = ReadResult(transactions, balance, user, AbsentId)
           /\ DeleteResult(transactions, balance, user, id)
                = Unchanged(transactions, balance, 404)
           /\ DeleteResult(transactions, balance, user, id)
                = DeleteResult(transactions, balance, user, AbsentId)
           /\ \A upd \in SharedUpdate :
                /\ UpdateResult(transactions, balance, user, id, upd)
                     = Unchanged(transactions, balance, 404)
                /\ UpdateResult(transactions, balance, user, id, upd)
                     = UpdateResult(transactions, balance, user, AbsentId, upd)

\* a request for another user's row has been answered 404
ForeignRequestRefused ==
    /\ last.op \in {"read", "update", "delete"} /\ last.status = 404
    /\ last.id \in DOMAIN transactions
    /\ transactions[last.id].user_id # last.user

\* C6: Create with an account_id that resolves to no account or to an account
\* of another user answers 404, stores no row and changes no balance.
CreateNeedsOwnedAccount ==
    \A user \in Users, t \in SharedCreate :
        (t.account_id \notin Accounts \/ AccountOwner[t.account_id] # user)
        => CreateResult(transactions, balance, user, t)
             = Unchanged(transactions, balance, 404)

\* a Create has been answered 404 and the ledger holds what it held
CreateRefused ==
    /\ last.op = "create" /\ last.status = 404
    /\ last.id \notin DOMAIN transactions

\* C7: Create rejects an amount that is zero or negative, so every stored row
\* has amount > 0.
StoredAmountsPositive ==
    \A id \in DOMAIN transactions : transactions[id].amount > 0

\* C8: a transfer has no balance effect: creating one, deleting one, and
\* updating the amount of one that stays a transfer leave every balance as
\* it was.
TransferHasNoEffect ==
    /\ \A user \in LedgerUsers, t \in LedgerCreate :
         t.transaction_type = "transfer"
         => CreateResult(transactions, balance, user, t).balance = balance
    /\ \A id \in DOMAIN transactions :
         transactions[id].transaction_type = "transfer"
         => /\ DeleteResult(transactions, balance,
                            transactions[id].user_id, id).balance = balance
            /\ \A upd \in LedgerUpdate :
                 (upd.amount.set /\ upd.transaction_type \in
                                      {Unset, Sent({"transfer"})})
                 => UpdateResult(transactions, balance,
                                 transactions[id].user_id, id, upd).balance
                      = balance

\* the amount of a transfer has been updated
TransferAmountUpdated ==
    /\ last.op = "update" /\ last.status = 200 /\ last.touches
    /\ last.id \in DOMAIN transactions
    /\ transactions[last.id].transaction_type = "transfer"
    /\ transactions[last.id].amount = 4
    /\ balance = OpeningBalance

\* C9: in Create the row and the balance change are committed together: a
\* step that stores a new row puts its effect into the balance of its account
\* in the same step, and a Create that changes a balance stores a row.
CreateCommitsTogether ==
    [][LET new == DOMAIN transactions' \ DOMAIN transactions
       IN  /\ \A id \in new :
                LET row == transactions'[id]
                IN  balance' = [balance EXCEPT ![row.account_id] =
                        ApplyEffect(@, row.transaction_type, row.amount)]
           /\ (last'.op = "create" /\ balance' # balance) => new # {}
      ]_vars

\* a Create of an income has been committed
IncomeCreated ==
    /\ last.op = "create" /\ last.status = 200
    /\ last.id \in DOMAIN transactions
    /\ transactions[last.id].transaction_type = "income"
    /\ transactions[last.id].amount = 4
    /\ balance # OpeningBalance

\* C10 as stated: once Delete of an id has succeeded the id is never active
\* again.
DeletedNeverActiveAgain ==
    \A id \in deleted : id \notin DOMAIN transactions

\* C10 amended: a successful Delete removes the row; while no row has a
\* deleted id, every Read, Update or Delete of it answers 404 and changes no
\* row and no balance; an id becomes active only through Create (which hands
\* out the largest id in use plus one, so a deleted id can come back as a new
\* row).
Lifecycle ==
    [][/\ (last'.op = "delete" /\ last'.status = 200)
            => /\ last'.id \in DOMAIN transactions
               /\ last'.id \notin DOMAIN transactions'
       /\ \A id \in deleted \ DOMAIN transactions :
            (last'.id = id /\ last'.op \in {"read", "update", "delete"})
            => /\ last'.status = 404
               /\ UNCHANGED <<transactions, balance>>
       /\ \A id \in DOMAIN transactions' \ DOMAIN transactions :
            last'.op = "create" /\ last'.status = 200 /\ last'.id = id
      ]_vars

\* a request for a deleted id has been answered 404
DeletedIdRefused ==
    /\ last.op \in {"read", "update", "delete"} /\ last.status = 404
    /\ last.id \in deleted /\ last.id \notin DOMAIN transactions

\* C11: the balance update is a read-modify-write.  A commit stores the
\* balance its session computed from the balance it read when its request
\* began, whatever other requests committed to the account in between, so
\* that the effect of a request that committed in between is lost.
RaceOverwrites ==
    [][\A w \in Workers :
          LET s == sessions[w]
          IN  (/\ s.pc = "commit"
               /\ sessions'[w].pc = "idle"
               /\ s.account # {}
               /\ s.value # s.read)
              => balance'[Val(s.account)]
                   = IF s.op = "create"
                     THEN ApplyEffect(s.read, Val(s.row).transaction_type,
                                      Val(s.row).amount)
                     ELSE RevertEffect(s.read, Val(s.row).transaction_type,
                                       Val(s.row).amount)]_vars

\* both requests have committed and the balance of account 2 is not the
\* opening balance plus the effects of the rows stored for it
LostUpdate ==
    /\ \A w \in Workers : sessions[w].pc = "idle"
    /\ last.op \in {"create", "delete"}
    /\ last.status = 200
    /\ balance[2] # Ledger(transactions, 2)

\* the old effect is reverted in the session and the apply block raises
PartialFailure(old, obj, upd) ==
    /\ TouchesBalance(upd)
    /\ HasEffect({old.transaction_type})
    /\ AnyAccount(old.account_id) # {}
    /\ HasEffect(obj.transaction_type)
    /\ \/ obj.account_id = {}
       \/ AnyAccount(Val(obj.account_id)) = {}
       \/ obj.amount = {}

\* C12 as stated: an Update whose new effect cannot be applied after the old
\* effect was reverted leaves the store with the old effect reverted and no
\* new effect applied.
FailedUpdateKeepsRevert ==
    \A user \in Users, id \in DOMAIN transactions, upd \in SharedUpdate :
        LET old == transactions[id]
            obj == SetAttrs(Loaded(old), upd)
            r == UpdateResult(transactions, balance, user, id, upd)
        IN  (old.user_id = user /\ PartialFailure(old, obj, upd))
            => r.balance = RevertOld(balance, old)

\* C12, amended: an Update that fails, in particular one whose new effect
\* cannot be applied after the old effect was reverted in the session, fails
\* before db.commit() and commits nothing: the row and every balance stay
\* as they were before the request.
FailedUpdateCommitsNothing ==
    \A user \in Users, id \in DOMAIN transactions, upd \in SharedUpdate :
        LET old == transactions[id]
            obj == SetAttrs(Loaded(old), upd)
            r == UpdateResult(transactions, balance, user, id, upd)
        IN  /\ (old.user_id = user /\ PartialFailure(old, obj, upd))
               => r.status = 500
            /\ r.status = 500
               => r.transactions = transactions /\ r.balance = balance

\* an Update of a row with an effect on an existing account has just failed
\* after its balance block ran, and the balance still holds the old effect
UpdateFailedAfterRevert ==
    /\ last.op = "update"
    /\ last.status = 500
    /\ last.touches
    /\ last.id \in DOMAIN transactions
    /\ LET row == transactions[last.id]
       IN  /\ HasEffect({row.transaction_type})
           /\ row.amount # 0
           /\ AnyAccount(row.account_id) # {}
           /\ balance[row.account_id] # RevertOld(balance, row)[row.account_id]
           /\ balance[row.account_id] = Ledger(transactions, row.account_id)

\* the rows of the caller that match every filter the request carries
MatchesSupplied(txs, user, q) ==
    {i \in DOMAIN txs :
        /\ txs[i].user_id = user
        /\ q.account_id # {} => txs[i].account_id = Val(q.account_id)
        /\ q.category_id # {} => txs[i].category_id = q.category_id
        /\ q.transaction_type # {}
             => txs[i].transaction_type = Val(q.transaction_type)
        /\ q.start_date # {} => txs[i].transaction_date >= Val(q.start_date)
        /\ q.end_date # {} => txs[i].transaction_date <= Val(q.end_date)}

\* C13: List returns exactly the caller's transactions that match every
\* supplied filter, latest date first, without the first `skip` of them and
\* at most `limit` of them, and never a transaction of another user.
ListReturnsMatching ==
    reply.op = "list" =>
      /\ \E o \in DateDescending(transactions,
                     MatchesSupplied(transactions, reply.user, reply.query)) :
            reply.items = Page(o, reply.query.skip, reply.query.limit)
      /\ \A k \in DOMAIN reply.items :
            transactions[reply.items[k]].user_id = reply.user

\* the sum of the amounts of the rows S in exact arithmetic
RECURSIVE ExactSum(_, _)
ExactSum(txs, S) ==
    IF S = {} THEN 0
    ELSE LET i == CHOOSE j \in S : TRUE
         IN  txs[i].amount + ExactSum(txs, S \ {i})

\* C14: Summary yields total_income = the sum of the amounts of the income
\* transactions of the set, total_expenses = the sum of the amounts of its
\* expense transactions, net_income = total_income - total_expenses, and
\* transaction_count = the size of the whole set, transfers included.
SummaryTotals ==
    reply.op = "summary" =>
      LET rows == {i \in DOMAIN transactions :
                     /\ transactions[i].user_id = reply.user
                     /\ reply.query.start_date # {} =>
                          transactions[i].transaction_date
                            >= Val(reply.query.start_date)
                     /\ reply.query.end_date # {} =>
                          transactions[i].transaction_date
                            <= Val(reply.query.end_date)}
          incomes == {i \in rows :
                        transactions[i].transaction_type = "income"}
          expenses == {i \in rows :
                         transactions[i].transaction_type = "expense"}
      IN  /\ reply.body.total_income = ExactSum(transactions, incomes)
          /\ reply.body.total_expenses = ExactSum(transactions, expenses)
          /\ reply.body.net_income
               = reply.body.total_income - reply.body.total_expenses
          /\ reply.body.transaction_count = Cardinality(rows)

\* C15: Summary, WealthInsights and SpendingPatterns are read-only: serving
\* any of them leaves every transaction and every account balance as it is.
AnalyticsReadOnly ==
    [][(reply'.op \in {"summary", "insights", "patterns"} /\ reply' # reply)
          => (transactions' = transactions /\ balance' = balance)]_vars

\* SpendingPatterns has been served its metrics from a store with rows
\* inside and outside its period and with balances the rows have changed
AnalyticsServed ==
    /\ reply.op = "patterns"
    /\ reply.body.kind = "metrics"
    /\ \E i \in DOMAIN transactions :
          /\ transactions[i].user_id = reply.user
          /\ transactions[i].transaction_date < reply.now - PatternDays
    /\ balance # OpeningBalance

\* the rows WealthInsights analyses for the request of the last reply
InsightSet ==
    {i \in DOMAIN transactions :
        /\ transactions[i].user_id = reply.user
        /\ transactions[i].transaction_date >= reply.now - reply.period_days}

\* C16: WealthInsights over an empty transaction set returns the
\* "no transactions" message, with no metrics and without failing.
EmptyInsightsIsMessage ==
    (reply.op = "insights" /\ InsightSet = {})
        => reply.body = [kind |-> "message"]

\* the caller has transactions, none of them in the period, and got the
\* message
EmptyInsightsServed ==
    /\ reply.op = "insights"
    /\ InsightSet = {}
    /\ \E i \in DOMAIN transactions : transactions[i].user_id = reply.user
    /\ reply.body.kind = "message"

\* C17: for every non-empty transaction set WealthInsights completes
\* without a division by zero; savings_rate is 0 when total_income = 0 and
\* every spending_distribution percentage is 0 when total_expenses = 0.
InsightsNeverDivideByZero ==
    (reply.op = "insights" /\ InsightSet # {}) =>
      /\ reply.body.kind = "metrics"
      /\ reply.body.total_income = 0
           => /\ reply.body.savings_rate_percent = 0
              /\ reply.body.recommendation
                   = "Consider reducing expenses to improve savings."
      /\ reply.body.total_expenses = 0
           => \A name \in DOMAIN reply.body.spending_distribution :
                 reply.body.spending_distribution[name].percentage = 0

\* metrics were served for a set with an expense, whose income and
\* expenses both total 0
ZeroTotalsAnalysed ==
    /\ reply.op = "insights"
    /\ \E i \in InsightSet : transactions[i].transaction_type = "expense"
    /\ reply.body.kind = "metrics"
    /\ reply.body.total_income = 0
    /\ reply.body.total_expenses = 0
    /\ DOMAIN reply.body.spending_distribution # {}

\* savings_rate * 40 + diversification_score * 0.3 + consistency_score * 0.3
\* for the request of the last reply
ScoreValue ==
    LET total_income ==
            SumAmounts(transactions,
                       {i \in InsightSet :
                          transactions[i].transaction_type = "income"})
        total_expenses ==
            SumAmounts(transactions,
                       {i \in InsightSet :
                          transactions[i].transaction_type = "expense"})
        savings_rate ==
            IF total_income > 0
            THEN Rat(FSub(total_income, total_expenses), total_income)
            ELSE Rat(0, 1)
        spent_on ==
            {CategoryOf(transactions[i].category_id) :
               i \in {j \in InsightSet :
                        transactions[j].transaction_type = "expense"}}
        diversification_score == Min2(10 * Cardinality(spent_on), 100)
        n == Cardinality(InsightSet)
        d == Cardinality({transactions[i].amount : i \in InsightSet})
    IN  RatAdd(RatAdd(RatTimes(savings_rate, 40),
                      Rat(3 * diversification_score, 10)),
               Rat(3 * (100 * n - 100 * d), 10 * n))

Clamp(x) == IF x < 0 THEN 0 ELSE IF x > 100 THEN 100 ELSE x

\* C18 as stated: the financial health score equals
\* round(savings_rate * 40 + diversification_score * 0.3
\*       + consistency_score * 0.3) clamped to [0, 100].
ScoreIsRounded ==
    (reply.op = "insights" /\ InsightSet # {}) =>
      reply.body.financial_health_score = Clamp(RoundHalfEven(ScoreValue))

\* C18, amended: the financial health score equals the integer part (the
\* fraction cut off, not rounded) of savings_rate * 40
\* + diversification_score * 0.3 + consistency_score * 0.3, clamped to
\* [0, 100]; it lies in [0, 100] for every non-empty set, also when the
\* expenses exceed the income.
ScoreIsTruncated ==
    (reply.op = "insights" /\ InsightSet # {}) =>
      /\ reply.body.financial_health_score = Clamp(Trunc(ScoreValue))
      /\ reply.body.financial_health_score >= 0
      /\ reply.body.financial_health_score <= 100

\* a score was served whose value rounds up to the next integer
FractionalScoreServed ==
    /\ reply.op = "insights"
    /\ InsightSet # {}
    /\ reply.body.kind = "metrics"
    /\ reply.body.financial_health_score > 0
    /\ reply.body.financial_health_score < Clamp(RoundHalfEven(ScoreValue))

\* C19: expense_by_category maps each category name ("Uncategorized" for an
\* expense without a resolvable category) to the sum of the amounts of the
\* expense transactions of that category; income and transfers add nothing,
\* and the entries sum to total_expenses.
ExpenseByCategorySums ==
    (reply.op = "insights" /\ InsightSet # {}) =>
      LET expenses == {i \in InsightSet :
                         transactions[i].transaction_type = "expense"}
          Of(name) == {i \in expenses :
                         CategoryOf(transactions[i].category_id) = name}
          names == {CategoryOf(transactions[i].category_id) : i \in expenses}
          entries == reply.body.spending_distribution
      IN  /\ DOMAIN entries = names
          /\ \A name \in names :
                entries[name].amount = ExactSum(transactions, Of(name))
          /\ ExactSum(transactions, expenses) = reply.body.total_expenses

\* C20: SpendingPatterns analyses only the caller's expense transactions:
\* the reply is the one the caller's expenses alone would get, whatever
\* income, transfers and rows of other users the store holds; when there is
\* no such expense in the period the reply is the "insufficient data"
\* message.
PatternsUseExpensesOnly ==
    reply.op = "patterns" =>
      LET own == {i \in DOMAIN transactions :
                    /\ transactions[i].user_id = reply.user
                    /\ transactions[i].transaction_type = "expense"}
          alone == PatternsResult([i \in own |-> transactions[i]],
                                  reply.user, reply.now)
          analysed == {i \in own : transactions[i].transaction_date
                                     >= reply.now - PatternDays}
      IN  /\ reply.body.kind = alone.kind
          /\ reply.body.kind = "metrics" => reply.body = alone
          /\ analysed = {} <=> reply.body.kind = "message"
          /\ analysed # {} <=> reply.body.kind = "metrics"

\* metrics were served to a caller who also has an income and a transfer
\* in the period, next to an expense of another user
PatternsIgnoredIncome ==
    /\ reply.op = "patterns"
    /\ reply.body.kind = "metrics"
    /\ \E i \in DOMAIN transactions :
          /\ transactions[i].user_id = reply.user
          /\ transactions[i].transaction_type # "expense"
          /\ transactions[i].transaction_date >= reply.now - PatternDays
          /\ transactions[i].amount > 0

MaxUsers == 2

\* schemas.UserCreate
UserCreate(usernames, emails, passwords) ==
    [username : usernames, email : emails, password : passwords]

\* the stored hash of a password: equal passwords, and only those, verify
Hash(password) == <<"bcrypt", password>>

\* models.User row
UserRow(id, u) ==
    [id |-> id, username |-> u.username, email |-> u.email,
     hashed_password |-> Hash(u.password), is_active |-> TRUE]

\* schemas.User, the body of an accepted registration
UserOut(row) ==
    [id |-> row.id, username |-> row.username, email |-> row.email]

\* a registration that stores a second row under a taken username
RegisterOutcomesNoCheck(us, u) ==
    LET row == UserRow(Len(us) + 1, u)
    IN  {[status |-> 200, users |-> Append(us, row),
          body |-> {UserOut(row)}]}

\* POST /auth/register: the outcomes a request may have.  A taken username
\* is refused with 400; username and email are unique columns, so a taken
\* email stores nothing either (refused by the handler or by the commit).
RegisterOutcomes(us, u) ==
    IF \E i \in DOMAIN us : us[i].username = u.username
    THEN {[status |-> 400, users |-> us, body |-> {}]}
    ELSE IF \E i \in DOMAIN us : us[i].email = u.email
    THEN {[status |-> s, users |-> us, body |-> {}] : s \in {400, 500}}
    ELSE LET row == UserRow(Len(us) + 1, u)
         IN  {[status |-> 200, users |-> Append(us, row),
               body |-> {UserOut(row)}]}

register(requests) ==
    \E u \in requests :
      \E r \in RegisterOutcomes(users, u) :
        /\ Len(r.users) <= MaxUsers
        /\ users' = r.users
        /\ reply' = [op |-> "register", request |-> u, status |-> r.status,
                     body |-> r.body]
        /\ UNCHANGED <<transactions, balance, deleted, last, sessions,
                       categories, session_state, screen, simple_finance,
                       simple_session_state>>

\* schemas.Token for a user
Token(username) ==
    [access_token |-> <<"jwt", username>>, token_type |-> "bearer"]

\* a login that does not look at the password
LoginResultAnyPassword(us, username, password) ==
    IF \E i \in DOMAIN us : us[i].username = username
    THEN [status |-> 200, body |-> {Token(username)}]
    ELSE [status |-> 401, body |-> {}]

\* POST /auth/token
LoginResult(us, username, password) ==
    IF \E i \in DOMAIN us :
          /\ us[i].username = username
          /\ us[i].hashed_password = Hash(password)
    THEN [status |-> 200, body |-> {Token(username)}]
    ELSE [status |-> 401, body |-> {}]

login(usernames, passwords) ==
    \E username \in usernames, password \in passwords :
      LET r == LoginResult(users, username, password)
      IN  /\ reply' = [op |-> "login", username |-> username,
                       password |-> password, status |-> r.status,
                       body |-> r.body]
          /\ UNCHANGED <<transactions, balance, deleted, last, sessions,
                         users, categories, session_state, screen,
                         simple_finance, simple_session_state>>

(***************************************************************************)
(* SpecAuth: registrations and logins against the API.                     *)
(***************************************************************************)
Usernames == {"testuser", "duplicate", "logintest"}

Emails == {"test@example.com", "other@example.com", "login@example.com"}

Passwords == {"testpass", "wrongpass"}

NextAuth ==
    \/ register(UserCreate(Usernames, Emails, Passwords))
    \/ login(Usernames, Passwords)

SpecAuth == Init /\ [][NextAuth]_vars

\* the rows of a users table stored under a username
Named(us, username) == {i \in DOMAIN us : us[i].username = username}

\* C22: registering a user with a username that is already registered is
\* rejected with status 400 and the set of stored users is unchanged: no
\* second user with that username is created.
DuplicateUsernameRejected ==
    [][/\ \A i, j \in DOMAIN users' :
             users'[i].username = users'[j].username => i = j
       /\ (reply'.op = "register"
             /\ Named(users, reply'.request.username) # {})
          => (reply'.status = 400 /\ users' = users)]_vars

\* a registration under a taken username, with another email, was refused
DuplicateRefused ==
    /\ reply.op = "register"
    /\ reply.status = 400
    /\ \E i \in DOMAIN users :
          /\ users[i].username = reply.request.username
          /\ users[i].email # reply.request.email
    /\ Len(users) = 1

\* C23: login for a registered username returns status 200 with an access
\* token of type "bearer" when the supplied password is the registered one,
\* and status 401 with no token when the password is wrong.  The registered
\* password is the one of the accepted registration: the one just answered,
\* or the one whose hash the users table holds.
LoginChecksPassword ==
    [][reply'.op = "login" =>
         LET granted == /\ reply'.status = 200
                        /\ \E t \in reply'.body :
                              /\ reply'.body = {t}
                              /\ "access_token" \in DOMAIN t
                              /\ t.token_type = "bearer"
             refused == reply'.status = 401 /\ reply'.body = {}
         IN  /\ (/\ reply.op = "register"
                 /\ reply.status = 200
                 /\ reply.request.username = reply'.username)
                => IF reply.request.password = reply'.password
                   THEN granted ELSE refused
             /\ \A i \in Named(users, reply'.username) :
                   IF users[i].hashed_password = Hash(reply'.password)
                   THEN granted ELSE refused]_vars

\* the second registered user logged in and was given a bearer token
LoginGranted ==
    /\ reply.op = "login"
    /\ reply.status = 200
    /\ \E t \in reply.body : t.token_type = "bearer"
    /\ Len(users) = 2
    /\ users[2].username = reply.username
    /\ users[2].hashed_password = Hash(reply.password)

\* C24: every account balance is changed only by operations of the account's
\* owner: an Update by user U that sets account_id to an account that is not
\* owned by U (or does not exist) is rejected and changes neither that
\* account's balance nor any other stored data.
BalancesChangeByOwnerOnly ==
    [][/\ \A a \in Accounts :
             balance'[a] # balance[a] => last'.user = AccountOwner[a]
       /\ \A user \in Users, id \in DOMAIN transactions,
             upd \in SharedUpdate :
             (/\ transactions[id].user_id = user
              /\ upd.account_id.set
              /\ upd.account_id.v # {}
              /\ OwnedAccount(Val(upd.account_id.v), user) = {})
             => LET r == UpdateResult(transactions, balance, user, id, upd)
                IN  /\ r.status # 200
                    /\ r.transactions = transactions
                    /\ r.balance = balance]_vars

\* C25: in every state reachable by Create, Update and Delete, each stored
\* transaction references an account that exists and is owned by the same
\* user who owns the transaction, and no Update changes a transaction's id
\* or owning user (the id is the key a row is stored under).
TransactionsReferenceOwnAccounts ==
    [][/\ \A id \in DOMAIN transactions' :
             OwnedAccount(transactions'[id].account_id,
                          transactions'[id].user_id) # {}
       /\ last'.op = "update" =>
             /\ DOMAIN transactions' = DOMAIN transactions
             /\ \A id \in DOMAIN transactions :
                   transactions'[id].user_id = transactions[id].user_id]_vars

(***************************************************************************)
(* SpecRepeat: Updates of user 1 on stores of up to MaxRows rows on        *)
(* account 1, the account with an opening balance.                         *)
(***************************************************************************)
RepeatAmounts == {1, 4}

RepeatCreates ==
    Creates(LedgerUsers,
            TransactionCreate(RepeatAmounts, {{"rent"}},
                              {"income", "expense"}, {1}))

RepeatUpdate ==
    TransactionUpdate(Opt(RepeatAmounts), {{"rent"}},
                      Opt({"income", "expense"}), Opt({1, 2}))

InitRepeat == InitStore(RepeatCreates)

NextRepeat == update_transaction(LedgerUsers, RepeatUpdate)

SpecRepeat == InitRepeat /\ [][NextRepeat]_vars

\* the request supplies amount, type and account_id, each equal to the
\* value the row holds
SuppliesCurrent(row, upd) ==
    /\ upd.amount = Sent({row.amount})
    /\ upd.transaction_type = Sent({row.transaction_type})
    /\ upd.account_id = Sent({row.account_id})

\* C26: Update is idempotent: applying the same Update request (same
\* transaction id and same supplied fields) twice in succession leaves every
\* account balance and the transaction record equal to the state after
\* applying it once; in particular an Update that supplies amount, type and
\* account_id equal to the current values leaves all balances unchanged.
UpdateIdempotent ==
    [][(last'.op = "update" /\ last'.status = 200) =>
         \A upd \in RepeatUpdate :
            LET user == last'.user
                id == last'.id
                once == UpdateResult(transactions, balance, user, id, upd)
                twice == UpdateResult(transactions', balance', user, id, upd)
            IN  (/\ once.status = 200
                 /\ once.transactions = transactions'
                 /\ once.balance = balance')
                => /\ twice.transactions = transactions'
                   /\ twice.balance = balance'
                   /\ SuppliesCurrent(transactions[id], upd) =>
                         balance' = balance]_vars

(***************************************************************************)
(* dashboard.py: the Streamlit front end of the API.  An action is one run *)
(* of the script: main() picks the page from the token, the page handles   *)
(* the form or button that started the run.  screen records the page the   *)
(* run rendered, the message it showed and whether it ended in st.rerun(). *)
(***************************************************************************)
\* what requests.get/post delivers: the response, or no response at all
\* (requests.exceptions.ConnectionError), written as status 0
ConnectionError == [status |-> 0, body |-> {}]

Rendered(page, message, rerun) ==
    [page |-> page, message |-> message, rerun |-> rerun]

Cleared == [token |-> {}, user_info |-> {}]

\* a helper that on 401 forgets the token alone
make_api_request_keeps_user(ss, response) ==
    IF response.status = 0
    THEN [session_state |-> ss, response |-> {},
          error |-> "Cannot connect to FinanceFlow API"]
    ELSE IF response.status = 401
    THEN [session_state |-> [ss EXCEPT !.token = {}], response |-> {},
          error |-> "Session expired. Please login again."]
    ELSE [session_state |-> ss, response |-> {response}, error |-> "none"]

\* make_api_request: what it leaves in st.session_state, what it returns
\* (None as {}) and the error it shows
make_api_request(ss, response) ==
    IF response.status = 0
    THEN [session_state |-> ss, response |-> {},
          error |-> "Cannot connect to FinanceFlow API"]
    ELSE IF response.status = 401
    THEN [session_state |-> Cleared, response |-> {},
          error |-> "Session expired. Please login again."]
    ELSE [session_state |-> ss, response |-> {response}, error |-> "none"]

\* a run no form or button started: main() renders the login page without
\* a token; with one, dashboard_page() greets user_info['username'] and
\* its page asks the API
main(responses) ==
    /\ IF session_state.token = {}
       THEN /\ screen' = Rendered("login", "none", FALSE)
            /\ reply' = NoReply
            /\ UNCHANGED session_state
       ELSE IF session_state.user_info = {}
       THEN /\ screen' = Rendered("dashboard", "TypeError", FALSE)
            /\ reply' = NoReply
            /\ UNCHANGED session_state
       ELSE \E response \in responses :
              LET r == make_api_request(session_state, response)
              IN  /\ session_state' = r.session_state
                  /\ screen' = Rendered("dashboard", r.error, FALSE)
                  /\ reply' = [op |-> "page", status |-> response.status]
    /\ UNCHANGED <<transactions, balance, deleted, last, sessions, users,
                   categories, simple_finance, simple_session_state>>

\* the answers POST /auth/token may give the login form
LoginResponses(username) ==
    {[status |-> 200, body |-> {Token(username)}],
     [status |-> 401, body |-> {}],
     [status |-> 422, body |-> {}],
     ConnectionError}

\* login_page, "login_form" submitted
login_form(usernames, passwords) ==
    /\ screen.page = "login" /\ ~screen.rerun
    /\ session_state.token = {}
    /\ \E username \in usernames, password \in passwords :
         IF username # "" /\ password # ""
         THEN \E response \in LoginResponses(username) :
                LET r == make_api_request(session_state, response)
                IN  /\ reply' = [op |-> "login", username |-> username,
                                 password |-> password,
                                 status |-> response.status,
                                 body |-> response.body]
                    /\ IF r.response # {} /\ response.status = 200
                       THEN /\ session_state' =
                                 [token |->
                                     {Val(response.body).access_token},
                                  user_info |->
                                     {[username |-> username]}]
                            /\ screen' = Rendered("login",
                                                  "Login successful!", TRUE)
                       ELSE /\ session_state' = r.session_state
                            /\ screen' = Rendered("login",
                                                  "Invalid credentials",
                                                  FALSE)
         ELSE /\ reply' = NoReply
              /\ screen' = Rendered("login",
                               "Please enter both username and password",
                               FALSE)
              /\ UNCHANGED session_state
    /\ UNCHANGED <<transactions, balance, deleted, last, sessions, users,
                   categories, simple_finance, simple_session_state>>

\* re.match(email_pattern, reg_email), for the addresses the forms send
EmailPattern(email) == email \in Emails

\* login_page, "register_form" submitted.  The request reaches the API
\* unless the connection fails.
register_form(usernames, emails, passwords, full_names) ==
    /\ screen.page = "login" /\ ~screen.rerun
    /\ session_state.token = {}
    /\ \E reg_username \in usernames, reg_email \in emails,
          reg_password \in passwords, reg_full_name \in full_names :
         IF reg_username = "" \/ reg_email = "" \/ reg_password = ""
            \/ reg_full_name = ""
         THEN /\ reply' = NoReply
              /\ screen' = Rendered("login", "Please fill all fields", FALSE)
              /\ UNCHANGED <<users, session_state>>
         ELSE IF ~EmailPattern(reg_email)
         THEN /\ reply' = NoReply
              /\ screen' = Rendered("login",
                                    "Please enter a valid email address",
                                    FALSE)
              /\ UNCHANGED <<users, session_state>>
         ELSE LET u == [username |-> reg_username, email |-> reg_email,
                        password |-> reg_password]
              IN  \E o \in RegisterOutcomes(users, u)
                           \cup {[status |-> 0, users |-> users,
                                  body |-> {}]} :
                    LET r == make_api_request(session_state,
                                 [status |-> o.status, body |-> o.body])
                    IN  /\ Len(o.users) <= MaxUsers
                        /\ users' = o.users
                        /\ reply' = [op |-> "register", request |-> u,
                                     status |-> o.status, body |-> o.body]
                        /\ session_state' = r.session_state
                        /\ screen' =
                             IF r.response # {} /\ o.status = 201
                             THEN Rendered("login",
                                    "Account created successfully!", FALSE)
                             ELSE Rendered("login",
                                    "Registration failed.", FALSE)
    /\ UNCHANGED <<transactions, balance, deleted, last, sessions,
                   categories, simple_finance, simple_session_state>>

\* the Logout button of the sidebar clicked: a run that finds no token
\* renders the login page; dashboard_page clears both keys and reruns
logout ==
    /\ screen.page = "dashboard" /\ ~screen.rerun
    /\ IF session_state.token = {}
       THEN /\ screen' = Rendered("login", "none", FALSE)
            /\ UNCHANGED session_state
       ELSE /\ session_state' = Cleared
            /\ screen' = Rendered("dashboard", "none", TRUE)
    /\ reply' = NoReply
    /\ UNCHANGED <<transactions, balance, deleted, last, sessions, users,
                   categories, simple_finance, simple_session_state>>

(***************************************************************************)
(* SpecDashboard: one browser session of dashboard.py against the API.     *)
(***************************************************************************)
FormUsernames == {"", "testuser", "duplicate"}

FormEmails == {"test@example.com", "other@example.com", "not-an-email"}

FormPasswords == {"", "testpass"}

FormNames == {"", "Test User"}

\* the answers of the transactions endpoints to a page of the dashboard
PageResponses ==
    {[status |-> s, body |-> {}] : s \in {200, 401, 500}}
    \cup {ConnectionError}

NextDashboard ==
    \/ main(PageResponses)
    \/ login_form(FormUsernames, FormPasswords)
    \/ register_form(FormUsernames, FormEmails, FormPasswords, FormNames)
    \/ logout

SpecDashboard == Init /\ [][NextDashboard]_vars

\* C27: dashboard/API registration handshake: whenever the API accepts a
\* registration (status 200 and the user's id, username and email in the
\* body, as test_register_user asserts for a new username), the dashboard's
\* register form reports "Account created successfully"; it reports
\* "Registration failed" only when the API rejected the registration.
RegistrationHandshake ==
    reply.op = "register" =>
      LET accepted == /\ reply.status = 200
                      /\ \E b \in reply.body :
                            /\ b.username = reply.request.username
                            /\ b.email = reply.request.email
                            /\ "id" \in DOMAIN b
      IN  /\ accepted => screen.message = "Account created successfully!"
          /\ screen.message = "Registration failed." => ~accepted

\* C28: after any sequence of login, logout and API requests, token and
\* user_info are either both set or both cleared; a 401 response to any API
\* request clears both, so the next render shows the login page; and the
\* dashboard page is rendered only while a token is set.
TokenAndUserInfoTogether ==
    [][/\ session_state'.token = {} <=> session_state'.user_info = {}
       /\ (reply'.op # "none" /\ reply'.status = 401)
             => session_state' = Cleared
       /\ (reply.op # "none" /\ reply.status = 401)
             => screen'.page = "login"
       /\ screen'.page = "dashboard" => session_state.token # {}]_vars

\* a page of the dashboard was answered 401 while a user was logged in:
\* the page is still on the screen, both keys are cleared
SessionExpired ==
    /\ reply.op = "page"
    /\ reply.status = 401
    /\ screen = Rendered("dashboard",
                         "Session expired. Please login again.", FALSE)
    /\ session_state = Cleared
    /\ users # <<>>

(***************************************************************************)
(* simple_dashboard.py: the stand-alone front end over simple_finance.db.  *)
(* An action is one run of the script started by a form or a button; last  *)
(* records which, screen what the run showed.                              *)
(***************************************************************************)
\* hash_password
Sha256(password) == <<"sha256", password>>

\* create_user: the INSERT, refused by the UNIQUE username (IntegrityError)
CreateUserResult(db, username, password) ==
    IF \E i \in DOMAIN db.users : db.users[i].username = username
    THEN [db |-> db, created |-> FALSE]
    ELSE [db |-> [db EXCEPT !.users =
                     Append(@, [username |-> username,
                                password_hash |-> Sha256(password)])],
          created |-> TRUE]

\* verify_user: the id of the row with that name and hash, or None
verify_user(db, username, password) ==
    {i \in DOMAIN db.users :
        /\ db.users[i].username = username
        /\ db.users[i].password_hash = Sha256(password)}

\* the rows get_transactions(user_id) selects
SimpleRowsOf(db, user_id) ==
    {i \in DOMAIN db.transactions : db.transactions[i].user_id = user_id}

\* "register_form" of the login page
simple_register(usernames, passwords) ==
    /\ simple_session_state.user_id = {}
    /\ \E new_username \in usernames, new_password \in passwords :
         LET r == CreateUserResult(simple_finance, new_username,
                                   new_password)
         IN  /\ Len(r.db.users) <= MaxUsers
             /\ simple_finance' = r.db
             /\ screen' = Rendered("login",
                             IF r.created
                             THEN "Account created! Please login."
                             ELSE "Username already exists!", FALSE)
    /\ last' = Response("register", 0, 0, 0)
    /\ UNCHANGED <<transactions, balance, deleted, sessions, reply, users,
                   categories, session_state, simple_session_state>>

\* "login_form" of the login page
simple_login(usernames, passwords) ==
    /\ simple_session_state.user_id = {}
    /\ \E username \in usernames, password \in passwords :
         LET user_id == verify_user(simple_finance, username, password)
         IN  IF user_id # {}
             THEN /\ simple_session_state' =
                       [simple_session_state EXCEPT
                           !.user_id = user_id, !.username = {username}]
                  /\ screen' = Rendered("login", "Login successful!", TRUE)
             ELSE /\ screen' = Rendered("login", "Invalid credentials",
                                        FALSE)
                  /\ UNCHANGED simple_session_state
    /\ last' = Response("login", 0, 0, 0)
    /\ UNCHANGED <<transactions, balance, deleted, sessions, reply, users,
                   categories, session_state, simple_finance>>

\* the Logout button: user_id and username are cleared, every other key of
\* the session state stays
simple_logout ==
    /\ simple_session_state.user_id # {}
    /\ simple_session_state' =
         [simple_session_state EXCEPT !.user_id = {}, !.username = {}]
    /\ screen' = Rendered("dashboard", "none", TRUE)
    /\ last' = Response("logout", Val(simple_session_state.user_id), 0, 0)
    /\ UNCHANGED <<transactions, balance, deleted, sessions, reply, users,
                   categories, session_state, simple_finance>>

\* add_transaction_page: the form submitted with an amount and a
\* description; the row gets the largest id in use plus one
add_transaction(amounts, descriptions, types) ==
    /\ simple_session_state.user_id # {}
    /\ NextId(simple_finance.transactions) <= MaxRows
    /\ \E amount \in amounts, description \in descriptions,
          trans_type \in types :
         /\ simple_finance' =
              [simple_finance EXCEPT !.transactions =
                  @ @@ (NextId(@) :>
                          [user_id |-> Val(simple_session_state.user_id),
                           amount |-> amount, description |-> description,
                           type |-> trans_type])]
         /\ screen' = Rendered("Add Transaction",
                               "Transaction added successfully!", TRUE)
    /\ last' = Response("add", Val(simple_session_state.user_id), 0, 0)
    /\ UNCHANGED <<transactions, balance, deleted, sessions, reply, users,
                   categories, session_state, simple_session_state>>

\* transactions_page: the Delete button of one of the rows listed
simple_delete_transaction ==
    /\ simple_session_state.user_id # {}
    /\ \E id \in SimpleRowsOf(simple_finance,
                              Val(simple_session_state.user_id)) :
         /\ simple_finance' =
              [simple_finance EXCEPT !.transactions =
                  [i \in DOMAIN @ \ {id} |-> @[i]]]
         /\ last' = Response("delete", Val(simple_session_state.user_id),
                             id, 0)
    /\ screen' = Rendered("Transactions", "Deleted", TRUE)
    /\ UNCHANGED <<transactions, balance, deleted, sessions, reply, users,
                   categories, session_state, simple_session_state>>

\* st.session_state.get('confirm_clear', False)
ConfirmClear(ss) == ss.confirm_clear = {TRUE}

\* a DELETE without its WHERE clause
ClearAllResultEveryone(db, ss) ==
    IF ConfirmClear(ss)
    THEN [db |-> [db EXCEPT !.transactions = <<>>],
          session_state |-> [ss EXCEPT !.confirm_clear = {FALSE}],
          screen |-> Rendered("Transactions", "All transactions cleared!",
                              TRUE)]
    ELSE [db |-> db,
          session_state |-> [ss EXCEPT !.confirm_clear = {TRUE}],
          screen |-> Rendered("Transactions",
                       "Click again to confirm deletion of ALL transactions!",
                       FALSE)]

\* transactions_page: what a click on "Clear All Transactions" does
ClearAllResult(db, ss) ==
    IF ConfirmClear(ss)
    THEN [db |-> [db EXCEPT !.transactions =
                     [i \in DOMAIN @ \ SimpleRowsOf(db, Val(ss.user_id))
                        |-> @[i]]],
          session_state |-> [ss EXCEPT !.confirm_clear = {FALSE}],
          screen |-> Rendered("Transactions", "All transactions cleared!",
                              TRUE)]
    ELSE [db |-> db,
          session_state |-> [ss EXCEPT !.confirm_clear = {TRUE}],
          screen |-> Rendered("Transactions",
                       "Click again to confirm deletion of ALL transactions!",
                       FALSE)]

\* the button is drawn only under a non-empty list of the user's rows
clear_all_transactions ==
    /\ simple_session_state.user_id # {}
    /\ SimpleRowsOf(simple_finance, Val(simple_session_state.user_id)) # {}
    /\ LET r == ClearAllResult(simple_finance, simple_session_state)
       IN  /\ simple_finance' = r.db
           /\ simple_session_state' = r.session_state
           /\ screen' = r.screen
    /\ last' = Response("clear_all", Val(simple_session_state.user_id), 0, 0)
    /\ UNCHANGED <<transactions, balance, deleted, sessions, reply, users,
                   categories, session_state>>

(***************************************************************************)
(* SpecSimple: one browser session of simple_dashboard.py.                 *)
(***************************************************************************)
SimpleUsernames == {"alice", "bob"}

SimplePasswords == {"secret"}

NextSimple ==
    \/ simple_register(SimpleUsernames, SimplePasswords)
    \/ simple_login(SimpleUsernames, SimplePasswords)
    \/ simple_logout
    \/ add_transaction({5}, {"rent"}, {"income", "expense"})
    \/ simple_delete_transaction
    \/ clear_all_transactions

SpecSimple == Init /\ [][NextSimple]_vars

\* C29: "Clear All Transactions" is a two-step confirmation: a click while
\* confirm_clear is unset deletes nothing and only sets the flag, with a
\* warning; only a click while the flag is set deletes, and it deletes
\* exactly the logged-in user's transactions, leaves all other users'
\* transactions unchanged, and resets the flag to unset.
ClearAllNeedsConfirmation ==
    [][last'.op = "clear_all" =>
         LET ss == simple_session_state
             rows == simple_finance.transactions
             own == SimpleRowsOf(simple_finance, Val(ss.user_id))
         IN  /\ simple_finance'.users = simple_finance.users
             /\ simple_session_state'.user_id = ss.user_id
             /\ simple_session_state'.username = ss.username
             /\ IF ss.confirm_clear \in {{}, {FALSE}}
                THEN /\ simple_finance' = simple_finance
                     /\ simple_session_state'.confirm_clear = {TRUE}
                     /\ screen'.message =
                          "Click again to confirm deletion of ALL transactions!"
                ELSE /\ DOMAIN simple_finance'.transactions
                          = DOMAIN rows \ own
                     /\ \A i \in DOMAIN rows \ own :
                           simple_finance'.transactions[i] = rows[i]
                     /\ simple_session_state'.confirm_clear
                          \in {{}, {FALSE}}]_vars

\* a confirming click has removed the rows of the user logged in and left
\* a row of the other user in the table
ClearedOwnRowsOnly ==
    /\ last.op = "clear_all"
    /\ simple_session_state.confirm_clear = {FALSE}
    /\ screen.message = "All transactions cleared!"
    /\ SimpleRowsOf(simple_finance, last.user) = {}
    /\ \E i \in DOMAIN simple_finance.transactions :
          simple_finance.transactions[i].user_id # last.user

(***************************************************************************)
(* Startup: the default categories are seeded each time the server starts. *)
(***************************************************************************)
DefaultCategory(name, description, category_type) ==
    [name |-> name, description |-> description,
     category_type |-> category_type]

\* default_categories
DefaultCategories ==
    <<DefaultCategory("Food & Dining", "Restaurants, groceries, etc.",
                      "expense"),
      DefaultCategory("Transportation", "Gas, public transport, etc.",
                      "expense"),
      DefaultCategory("Shopping", "Clothing, electronics, etc.", "expense"),
      DefaultCategory("Entertainment", "Movies, games, subscriptions",
                      "expense"),
      DefaultCategory("Bills & Utilities", "Rent, electricity, internet",
                      "expense"),
      DefaultCategory("Healthcare", "Medical expenses", "expense"),
      DefaultCategory("Salary", "Monthly salary", "income"),
      DefaultCategory("Freelance", "Freelance work income", "income"),
      DefaultCategory("Investment", "Investment returns", "income")>>

\* db.query(models.Category).filter(Category.name == name).first()
Existing(cats, name) == {i \in DOMAIN cats : cats[i].name = name}

\* the loop over the first k defaults: a default whose name no row has is
\* added, under the next id
RECURSIVE Seed(_, _)
Seed(cats, k) ==
    IF k = 0 THEN cats
    ELSE LET before == Seed(cats, k - 1)
         IN  IF Existing(before, DefaultCategories[k].name) = {}
             THEN Append(before, DefaultCategories[k])
             ELSE before

\* name = Column(String, unique=True): the commit of a table that holds a
\* name twice raises IntegrityError and stores nothing
UniqueNames(cats) ==
    \A i, j \in DOMAIN cats : cats[i].name = cats[j].name => i = j

\* a startup that adds every default without looking for its name, on a
\* table whose name column is not unique
startup_event_unchecked ==
    /\ categories' = categories \o DefaultCategories
    /\ last' = Response("startup", 0, 0, 200)
    /\ UNCHANGED <<transactions, balance, deleted, sessions, reply,
                   users, session_state, screen, simple_finance,
                   simple_session_state>>

startup_event ==
    LET seeded == Seed(categories, Len(DefaultCategories))
    IN  /\ categories' = IF UniqueNames(seeded) THEN seeded ELSE categories
        /\ last' = [Response("startup", 0, 0, 200)
                    EXCEPT !.touches = (seeded # categories)]
        /\ UNCHANGED <<transactions, balance, deleted, sessions, reply,
                       users, session_state, screen, simple_finance,
                       simple_session_state>>

(***************************************************************************)
(* SpecSeed: the server is started any number of times while user 1        *)
(* creates and deletes transactions that name categories by id.            *)
(***************************************************************************)
SeedCreate ==
    TransactionCreateOn({4}, {1, 2}, TransactionType, {1, 2},
                        {{}, {1}, {9}})

NextSeed ==
    \/ startup_event
    \/ create_transaction(LedgerUsers, SeedCreate)
    \/ delete_transaction(LedgerUsers)

SpecSeed == Init /\ [][NextSeed]_vars

\* C30: startup category seeding is idempotent: running the startup event
\* any number of times results in each of the nine default category names
\* being present exactly once; categories that already exist are neither
\* duplicated nor modified.
SeedingIdempotent ==
    [][last'.op = "startup" =>
         /\ Len(DefaultCategories) = 9
         /\ \A k \in DOMAIN DefaultCategories :
               Cardinality(Existing(categories',
                                    DefaultCategories[k].name)) = 1
         /\ \A i \in DOMAIN categories :
               /\ i \in DOMAIN categories'
               /\ categories'[i] = categories[i]
         /\ \A i \in DOMAIN categories' \ DOMAIN categories :
               Existing(categories, categories'[i].name) = {}
         /\ categories # <<>> => categories' = categories]_vars

\* the server has started on a table that held the nine categories already
\* and added nothing, while a transaction names category 9
SeededAgain ==
    /\ last.op = "startup"
    /\ ~last.touches
    /\ Len(categories) = 9
    /\ \E id \in DOMAIN transactions : transactions[id].category_id = {9}
====
